---- MODULE Spec2Model ----
(***************************************************************************)
(* Model of the serverless endpoint api/generate.js (Riu-F/travel-ai-      *)
(* vercel): the four revisions of `handler` and the helpers of the         *)
(* marker-extracting revision.                                             *)
(*                                                                         *)
(* Text is a sequence of tokens.  Every token stands for a literal piece   *)
(* of text: "{" "}" "," ":" are themselves, "q" is a double quote, "1" a   *)
(* digit, " " a space, "NL" a line feed, "bn" and "bq" the two-character   *)
(* escapes of a line feed and of a quote, "BOM" U+FEFF, "FENCE" three      *)
(* backticks, and every other                                              *)
(* token (value, text, __FINAL_JSON_START__, boom, ...) the word it        *)
(* spells.  JSON.parse / JSON.stringify are a recursive-descent parser     *)
(* and a printer over these tokens.                                        *)
(***************************************************************************)
EXTENDS Integers, Sequences, FiniteSets, TLC

VARIABLES rev, env, req, pc, calls, timer, clock, aborted, upstream,
          locals, responses, uncaught

vars == <<rev, env, req, pc, calls, timer, clock, aborted, upstream,
          locals, responses, uncaught>>

(***************************************************************************)
(* JavaScript values                                                       *)
(***************************************************************************)
Val(t, n, s, keys, vals) == [t |-> t, n |-> n, s |-> s, keys |-> keys, vals |-> vals]

Undefined == Val("undefined", 0, <<>>, <<>>, <<>>)

Null == Val("null", 0, <<>>, <<>>, <<>>)

Num(n) == Val("number", n, <<>>, <<>>, <<>>)

Str(s) == Val("string", 0, s, <<>>, <<>>)

Obj(keys, vals) == Val("object", 0, <<>>, keys, vals)

\* typeof v
TypeOf(v) == IF v.t = "null" THEN "object" ELSE v.t

\* ToBoolean(v): the test of `!v`, `a || b`
Truthy(v) ==
    CASE v.t = "undefined" -> FALSE
      [] v.t = "null" -> FALSE
      [] v.t = "string" -> Len(v.s) > 0
      [] v.t = "number" -> v.n # 0
      [] OTHER -> TRUE

\* a || b
Or(a, b) == IF Truthy(a) THEN a ELSE b

\* obj.key for an object; a property no primitive of the model has is
\* undefined
Get(v, key) ==
    IF v.t = "object" /\ \E i \in 1..Len(v.keys) : v.keys[i] = key
    THEN v.vals[CHOOSE i \in 1..Len(v.keys) : v.keys[i] = key]
    ELSE Undefined

\* obj.key = x (a key keeps the place of its first assignment)
Put(v, key, x) ==
    IF \E i \in 1..Len(v.keys) : v.keys[i] = key
    THEN Obj(v.keys, [i \in 1..Len(v.vals) |-> IF v.keys[i] = key THEN x ELSE v.vals[i]])
    ELSE Obj(Append(v.keys, key), Append(v.vals, x))

(***************************************************************************)
(* Text                                                                    *)
(***************************************************************************)
START_TAG == "__FINAL_JSON_START__"

END_TAG == "__FINAL_JSON_END__"

\* White space of String.prototype.trim (it includes U+FEFF)
TrimSpace == {" ", "NL", "BOM"}

\* White space of the JSON grammar
JsonSpace == {" ", "NL"}

Min(S) == CHOOSE x \in S : \A y \in S : x <= y

Max(S) == CHOOSE x \in S : \A y \in S : x >= y

\* s.trim()
Trim(s) ==
    LET keep == {i \in 1..Len(s) : s[i] \notin TrimSpace}
    IN  IF keep = {} THEN <<>> ELSE SubSeq(s, Min(keep), Max(keep))

\* s.indexOf(tag, from), 1-based; 0 when there is none
IndexOf(s, tag, from) ==
    LET hits == {i \in from..Len(s) : s[i] = tag}
    IN  IF hits = {} THEN 0 ELSE Min(hits)

\* s.slice(0, n)
SliceHead(s, n) == SubSeq(s, 1, IF Len(s) < n THEN Len(s) ELSE n)

\* s.slice(-n)
SliceTail(s, n) == SubSeq(s, IF Len(s) < n THEN 1 ELSE Len(s) - n + 1, Len(s))

\* raw.split('\n')
RECURSIVE Split(_)
Split(s) ==
    LET k == IndexOf(s, "NL", 1)
    IN  IF k = 0 THEN <<s>>
        ELSE <<SubSeq(s, 1, k - 1)>> \o Split(SubSeq(s, k + 1, Len(s)))

(***************************************************************************)
(* JSON.parse                                                              *)
(***************************************************************************)
Fail == [ok |-> FALSE, val |-> Undefined, next |-> 0]

Done(v, next) == [ok |-> TRUE, val |-> v, next |-> next]

SkipWs(t, i) == Min({j \in i..(Len(t) + 1) : j = Len(t) + 1 \/ t[j] \notin JsonSpace})

\* the characters of a string literal, escapes decoded
Decode(s) ==
    [i \in 1..Len(s) |-> CASE s[i] = "bn" -> "NL" [] s[i] = "bq" -> "q" [] OTHER -> s[i]]

\* the characters of a string, escaped for a string literal
Encode(s) ==
    [i \in 1..Len(s) |-> CASE s[i] = "NL" -> "bn" [] s[i] = "q" -> "bq" [] OTHER -> s[i]]

\* a string literal starting at the quote t[i]
ParseString(t, i) ==
    LET j == IndexOf(t, "q", i + 1)
    IN  IF j = 0 \/ \E k \in (i+1)..(j-1) : t[k] = "NL" THEN Fail
        ELSE Done(Str(Decode(SubSeq(t, i + 1, j - 1))), j + 1)

\* a number starting at the digit t[i]
ParseNumber(t, i) ==
    LET j == Min({k \in i..(Len(t) + 1) : k = Len(t) + 1 \/ t[k] # "1"})
    IN  Done(Num(j - i), j)

RECURSIVE ParseValue(_, _), ParseMembers(_, _, _)
ParseValue(t, i0) ==
    LET i == SkipWs(t, i0)
    IN  IF i > Len(t) THEN Fail
        ELSE CASE t[i] = "1" -> ParseNumber(t, i)
               [] t[i] = "q" -> ParseString(t, i)
               [] t[i] = "null" -> Done(Null, i + 1)
               [] t[i] = "{" ->
                    LET j == SkipWs(t, i + 1)
                    IN  IF j <= Len(t) /\ t[j] = "}" THEN Done(Obj(<<>>, <<>>), j + 1)
                        ELSE ParseMembers(t, j, Obj(<<>>, <<>>))
               [] OTHER -> Fail

\* the members of an object from the key at t[i] to the closing brace, added
\* to obj
ParseMembers(t, i, obj) ==
    IF i > Len(t) \/ t[i] # "q" THEN Fail
    ELSE LET k == ParseString(t, i)
             c == IF k.ok THEN SkipWs(t, k.next) ELSE 0
         IN  IF ~k.ok \/ c > Len(t) \/ t[c] # ":" THEN Fail
             ELSE LET v == ParseValue(t, c + 1)
                      m == IF v.ok THEN SkipWs(t, v.next) ELSE 0
                  IN  IF ~v.ok \/ m > Len(t) THEN Fail
                      ELSE CASE t[m] = "}" -> Done(Put(obj, k.val.s, v.val), m + 1)
                             [] t[m] = "," ->
                                  ParseMembers(t, SkipWs(t, m + 1), Put(obj, k.val.s, v.val))
                             [] OTHER -> Fail

\* a parsed value is the whole text when only white space follows it
Whole(t, r) == IF r.ok /\ SkipWs(t, r.next) = Len(t) + 1 THEN r ELSE Fail

\* JSON.parse(text): ok with the value, or not ok (it throws a SyntaxError)
JsonParse(t) == Whole(t, ParseValue(t, 1))

(***************************************************************************)
(* JSON.stringify                                                          *)
(***************************************************************************)
Spaces(n) == [i \in 1..n |-> " "]

\* JSON.stringify(v, null, gap) at nesting depth d; gap = 0 is the compact form
RECURSIVE Print0(_, _, _), PrintMembers(_, _, _, _)
Print0(v, gap, d) ==
    CASE v.t = "number" -> [i \in 1..v.n |-> "1"]
      [] v.t = "string" -> <<"q">> \o Encode(v.s) \o <<"q">>
      [] v.t = "object" ->
           IF v.keys = <<>> THEN <<"{", "}">>
           ELSE <<"{">> \o PrintMembers(v, gap, d + 1, 1)
                \o (IF gap = 0 THEN <<>> ELSE <<"NL">> \o Spaces(gap * d)) \o <<"}">>
      [] OTHER -> <<"null">>

PrintMembers(v, gap, d, i) ==
    IF i > Len(v.keys) THEN <<>>
    ELSE (IF i = 1 THEN <<>> ELSE <<",">>)
         \o (IF gap = 0 THEN <<>> ELSE <<"NL">> \o Spaces(gap * d))
         \o <<"q">> \o Encode(v.keys[i]) \o <<"q", ":">>
         \o (IF gap = 0 THEN <<>> ELSE <<" ">>)
         \o Print0(v.vals[i], gap, d)
         \o PrintMembers(v, gap, d, i + 1)

\* JSON.stringify(v)
Stringify(v) == Print0(v, 0, 0)

\* JSON.stringify(v, null, 2)
StringifyPretty(v) == Print0(v, 2, 0)

(***************************************************************************)
(* Helpers of the marker-extracting revision                               *)
(***************************************************************************)
PREVIEW_LEN == 800

\* the if / else if chain of the loop body, for the parsed line obj and its
\* obj?.value
AssembleObj(obj, value) ==
    IF Get(value, <<"type">>) = Str(<<"chunk">>) /\ TypeOf(Get(value, <<"value">>)) = "string"
    THEN Get(value, <<"value">>).s
    ELSE IF obj.t = "null" THEN <<>>              \* obj.output throws, caught
    ELSE IF TypeOf(Get(obj, <<"output">>)) = "string" THEN Get(obj, <<"output">>).s
    ELSE IF TypeOf(Get(obj, <<"text">>)) = "string" THEN Get(obj, <<"text">>).s
    ELSE <<>>

\* try { const obj = JSON.parse(s); ... } catch { ignore non-JSON lines }
AssembleParsed(p) == IF ~p.ok THEN <<>> ELSE AssembleObj(p.val, Get(p.val, <<"value">>))

\* if (!s) continue;
AssembleTrimmed(s) == IF s = <<>> THEN <<>> ELSE AssembleParsed(JsonParse(s))

\* what one line of the body adds to the assembled text (the loop body)
AssembleLine(line) == AssembleTrimmed(Trim(line))

\* the lines taken last to first
RECURSIVE AssembleLinesReversed(_)
AssembleLinesReversed(lines) ==
    IF lines = <<>> THEN <<>>
    ELSE AssembleLinesReversed(Tail(lines)) \o AssembleLine(Head(lines))

RECURSIVE AssembleLines(_)
AssembleLines(lines) ==
    IF lines = <<>> THEN <<>>
    ELSE AssembleLine(Head(lines)) \o AssembleLines(Tail(lines))

assembleFromStreamLines(raw) ==
    IF raw = <<>> THEN <<>> ELSE AssembleLines(Split(raw))

\* the textual field with output looked up before text
BlobTextOutputFirst(obj) ==
    IF TypeOf(Get(obj, <<"output">>)) = "string" THEN Get(obj, <<"output">>).s
    ELSE IF TypeOf(Get(obj, <<"text">>)) = "string" THEN Get(obj, <<"text">>).s
    ELSE IF Truthy(Or(Or(Get(obj, <<"hero">>), Get(obj, <<"meta">>)), Get(obj, <<"sections">>)))
         THEN Stringify(obj)
    ELSE <<>>

\* the textual field of the parsed blob
BlobText(obj) ==
    IF TypeOf(Get(obj, <<"text">>)) = "string" THEN Get(obj, <<"text">>).s
    ELSE IF TypeOf(Get(obj, <<"output">>)) = "string" THEN Get(obj, <<"output">>).s
    ELSE IF Truthy(Or(Or(Get(obj, <<"hero">>), Get(obj, <<"meta">>)), Get(obj, <<"sections">>)))
         THEN Stringify(obj)
    ELSE <<>>

BlobParsed(p) == IF p.ok /\ p.val.t = "object" THEN BlobText(p.val) ELSE <<>>

extractVisibleFromJsonBlob(raw) == BlobParsed(JsonParse(raw))

\* a || b || c || '' on strings
FirstNonEmpty(a, b, c) == IF a # <<>> THEN a ELSE IF b # <<>> THEN b ELSE c

\* const visible = assembled || extractVisibleFromJsonBlob(raw) || raw || ''
VisibleOf(raw) ==
    FirstNonEmpty(assembleFromStreamLines(raw), extractVisibleFromJsonBlob(raw), raw)

\* s.slice(a + startTag.length, b).trim() for the tags found at a and b, null
\* when one is not found (a tag is one token long)
Between(s, a, b) ==
    IF a = 0 THEN Null
    ELSE IF b = 0 THEN Null
    ELSE Str(Trim(SubSeq(s, a + 1, b - 1)))

\* s.indexOf(endTag, a + startTag.length)
EndIndex(s, endTag, a) == IF a = 0 THEN 0 ELSE IndexOf(s, endTag, a + 1)

extractBetweenMarkers(s, startTag, endTag) ==
    Between(s, IndexOf(s, startTag, 1), EndIndex(s, endTag, IndexOf(s, startTag, 1)))

\* .replace(/^\uFEFF/, '')
StripBom(s) == IF s # <<>> /\ Head(s) = "BOM" THEN Tail(s) ELSE s

\* .replace(/^```(?:json)?/i, '')
StripLeadingFence(s) ==
    IF s # <<>> /\ Head(s) = "FENCE"
    THEN IF Len(s) >= 2 /\ s[2] = "json" THEN SubSeq(s, 3, Len(s)) ELSE Tail(s)
    ELSE s

\* .replace(/```$/i, '')
StripTrailingFence(s) ==
    IF s # <<>> /\ s[Len(s)] = "FENCE" THEN SubSeq(s, 1, Len(s) - 1) ELSE s

cleanupJsonSlice(s) == Trim(StripTrailingFence(StripLeadingFence(StripBom(s))))

TryResult(p) ==
    IF p.ok THEN [ok |-> TRUE, value |-> p.val, error |-> Undefined]
    ELSE [ok |-> FALSE, value |-> Undefined, error |-> Str(<<"SyntaxError message">>)]

tryParseJson(s) == TryResult(JsonParse(s))

\* one iteration of the for loop of findLastBalancedJson: start, depth and
\* segments after the character s[i] (start = 0 stands for -1)
ScanStep(s, st, i) ==
    IF s[i] = "{"
    THEN [start |-> IF st.depth = 0 THEN i ELSE st.start, depth |-> st.depth + 1,
          segments |-> st.segments]
    ELSE IF s[i] = "}" /\ st.depth > 0
    THEN IF st.depth - 1 = 0 /\ st.start # 0
         THEN [start |-> 0, depth |-> 0, segments |-> Append(st.segments, <<st.start, i>>)]
         ELSE [start |-> st.start, depth |-> st.depth - 1, segments |-> st.segments]
    ELSE st

\* the iterations lo..hi of the for loop, in order, from the state st (the
\* first half is evaluated before the second half starts)
RECURSIVE ScanLoop(_, _, _, _)
ScanLoop(s, lo, hi, st) ==
    IF lo > hi THEN st
    ELSE IF lo = hi THEN ScanStep(s, st, lo)
    ELSE LET half == ScanLoop(s, lo, (lo + hi) \div 2, st)
         IN  IF half.depth >= 0 THEN ScanLoop(s, (lo + hi) \div 2 + 1, hi, half) ELSE half

\* let start = -1; let depth = 0; const segments = []; for (...) {...}
ScanSegments(s) == ScanLoop(s, 1, Len(s), [start |-> 0, depth |-> 0, segments |-> <<>>]).segments

\* null, or s.slice(a, b).trim() for the last segment [a, b]
LastSegment(s, segments) ==
    IF segments = <<>> THEN Null
    ELSE Str(Trim(SubSeq(s, segments[Len(segments)][1], segments[Len(segments)][2])))

\* null, or the first balanced {...} of s
findFirstBalancedJson(s) ==
    IF ScanSegments(s) = <<>> THEN Null
    ELSE Str(Trim(SubSeq(s, ScanSegments(s)[1][1], ScanSegments(s)[1][2])))

\* null, or the last balanced {...} of s
findLastBalancedJson(s) == LastSegment(s, ScanSegments(s))

(***************************************************************************)
(* What a run of the handler does next                                     *)
(***************************************************************************)
T(word) == Str(<<word>>)

Err(name, message) == [name |-> name, message |-> message]

NoErr == Err("", "")

NoCall == [appId |-> Undefined, authorization |-> <<>>, accept |-> "", signal |-> FALSE,
           body |-> <<>>]

\* String(err)
ErrString(err) == Str(<<err.name, ":", " ", err.message>>)

\* `${v}` in a template string
Template(v) == IF v.t = "string" THEN v.s ELSE <<v.t>>

\* res.status(status).json(body) / res.status(status).end()
Respond(status, body) ==
    [kind |-> "respond", status |-> status, body |-> body, err |-> NoErr, call |-> NoCall]

\* an exception thrown inside the try block
Throw(err) ==
    [kind |-> "throw", status |-> 0, body |-> Undefined, err |-> err, call |-> NoCall]

\* await fetch(url, init)
Fetch(appId, auth, accept, inputs, version, signal) ==
    [kind |-> "fetch", status |-> 0, body |-> Undefined, err |-> NoErr,
     call |-> [appId |-> appId, authorization |-> <<"Bearer", " ">> \o Template(auth),
               accept |-> accept, signal |-> signal,
               body |-> Stringify(Obj(<<<<"inputs">>, <<"version">>>>, <<inputs, version>>))]]

ErrorBody(error) == Obj(<<<<"error">>>>, <<T(error)>>)

ErrorDetail(error, detail) == Obj(<<<<"error">>, <<"detail">>>>, <<T(error), detail>>)

ErrorPreview(error, detail, preview) ==
    Obj(<<<<"error">>, <<"detail">>, <<"preview">>>>, <<T(error), detail, Str(preview)>>)

HARD_CODED_APP_ID == T("54801f70-9c87-438e-872a-be47eb1eb222")

(***************************************************************************)
(* The catch block of each revision                                        *)
(***************************************************************************)
\* marker: String(err && err.name === 'AbortError' ? 'Upstream timeout' : err)
CatchMarkerUnclassified(err) == Respond(500, ErrorDetail("Server error", ErrString(err)))

CatchMarker(err) ==
    Respond(500, ErrorDetail("Server error",
        IF err.name = "AbortError" THEN T("Upstream timeout") ELSE ErrString(err)))

\* stream: String(err)
CatchStream(err) == Respond(500, ErrorDetail("Server error", ErrString(err)))

\* proxy, proxy2: err?.message || String(err)
CatchProxy(err) ==
    Respond(500, ErrorDetail("Server error", Or(T(err.message), ErrString(err))))

\* try { ... } catch (err) { ... }: what the handler does with the outcome of
\* its try block
\* a handler without its try / catch
NoCatch(rv, out) == out

TryCatch(rv, out) ==
    IF out.kind # "throw" THEN out
    ELSE CASE rv = "marker" -> CatchMarker(out.err)
           [] rv = "stream" -> CatchStream(out.err)
           [] OTHER -> CatchProxy(out.err)

(***************************************************************************)
(* From the request to the outbound call                                   *)
(***************************************************************************)
PERSONA == <<"Persona_TravelHistory">>

\* inputs.Persona_TravelHistory = 'None' (the file is an ES module, so strict
\* mode: creating a property on a primitive throws)
SetPersona(inputs) ==
    IF inputs.t = "object"
    THEN [threw |-> FALSE, inputs |-> Put(inputs, PERSONA, T("None")), err |-> NoErr]
    ELSE [threw |-> TRUE, inputs |-> inputs,
          err |-> Err("TypeError", "Cannot create property 'Persona_TravelHistory'")]

\* if (!p || !p.trim()) inputs.Persona_TravelHistory = 'None', for p =
\* inputs.Persona_TravelHistory: the inputs afterwards, or the TypeError thrown
PersonaOf(inputs, p) ==
    IF ~Truthy(p) THEN SetPersona(inputs)
    ELSE IF p.t # "string"
    THEN [threw |-> TRUE, inputs |-> inputs,
          err |-> Err("TypeError", "inputs.Persona_TravelHistory.trim is not a function")]
    ELSE IF Trim(p.s) = <<>> THEN SetPersona(inputs)
    ELSE [threw |-> FALSE, inputs |-> inputs, err |-> NoErr]

Persona(inputs) == PersonaOf(inputs, Get(inputs, PERSONA))

\* the fetch of the marker and stream revisions
PersonaFetch(rv, e, inputs) ==
    IF rv = "marker"
    THEN Fetch(e.WORDWARE_PROMPT_ID, e.WORDWARE_API_KEY,
               "text/event-stream, application/json;q=0.9, */*;q=0.8", inputs, T("^3.2"), TRUE)
    ELSE Fetch(e.WORDWARE_PROMPT_ID, e.WORDWARE_API_KEY, "application/json",
               inputs, T("^2.1"), FALSE)

\* if (!inputs) return 400, then the Persona_TravelHistory default
PersonaInputs(rv, e, inputs, p) ==
    IF ~Truthy(inputs) THEN Respond(400, ErrorBody("Missing inputs"))
    ELSE IF p.threw THEN Throw(p.err)
    ELSE PersonaFetch(rv, e, p.inputs)

\* the try block of the marker and stream revisions up to `await fetch`
PersonaStart(rv, r, e) ==
    PersonaInputs(rv, e, Get(Or(r.body, Obj(<<>>, <<>>)), <<"inputs">>),
                  Persona(Get(Or(r.body, Obj(<<>>, <<>>)), <<"inputs">>)))

\* const appId = ...
ProxyAppId(rv, e) ==
    IF rv = "proxy" THEN HARD_CODED_APP_ID
    ELSE Or(Or(e.WORDWARE_APP_ID, e.WORDWARE_PROMPT_ID), HARD_CODED_APP_ID)

\* if (!inputs || typeof inputs !== 'object') return 400, then the fetch
ProxyInputs(rv, e, apiKey, inputs, version) ==
    IF ~Truthy(inputs) \/ TypeOf(inputs) # "object"
    THEN Respond(400, ErrorBody("Missing or invalid inputs"))
    ELSE Fetch(ProxyAppId(rv, e), apiKey, "", inputs, version, FALSE)

\* const inputs = body.inputs; const version = body.version || '^1.0'
ProxyBody(rv, e, apiKey, body) ==
    IF body.t = "null"
    THEN Throw(Err("TypeError", "Cannot read properties of null (reading 'inputs')"))
    ELSE ProxyInputs(rv, e, apiKey, Get(body, <<"inputs">>),
                     Or(Get(body, <<"version">>), T("^1.0")))

\* JSON.parse(req.body) of a string body
ProxyParsed(rv, e, apiKey, p) ==
    IF ~p.ok THEN Throw(Err("SyntaxError", "SyntaxError message"))
    ELSE ProxyBody(rv, e, apiKey, p.val)

\* the try block of the proxy revisions up to `await fetch`
ProxyStart(rv, r, e, apiKey) ==
    IF r.body.t = "string" THEN ProxyParsed(rv, e, apiKey, JsonParse(r.body.s))
    ELSE ProxyBody(rv, e, apiKey, Or(r.body, Obj(<<>>, <<>>)))

\* if (!apiKey) return 500, then the try block
ProxyKey(rv, r, e, apiKey) ==
    IF ~Truthy(apiKey) THEN Respond(500, ErrorBody("WORDWARE_API_KEY not configured"))
    ELSE TryCatch(rv, ProxyStart(rv, r, e, apiKey))

\* the handler from its first line to its first await or its response
Start(rv, r, e) ==
    IF r.method = "OPTIONS" THEN Respond(200, Undefined)
    ELSE IF r.method # "POST" THEN Respond(405, ErrorBody("Method not allowed"))
    ELSE IF rv \in {"marker", "stream"} THEN TryCatch(rv, PersonaStart(rv, r, e))
    ELSE ProxyKey(rv, r, e, Or(e.WORDWARE_API_KEY, e.NEXT_PUBLIC_WORDWARE_API_KEY))

\* req.body.inputs after the handler: the assignment changes the request's
\* own object
InputsAfter(inputs, p) == IF Truthy(inputs) /\ ~p.threw THEN p.inputs ELSE inputs

\* req.body after the handler ran to its first await or its response
BodyAfterStart(rv, r) ==
    IF r.method = "POST" /\ rv \in {"marker", "stream"} /\ r.body.t = "object"
       /\ Truthy(Get(r.body, <<"inputs">>))
    THEN Put(r.body, <<"inputs">>,
             InputsAfter(Get(r.body, <<"inputs">>), Persona(Get(r.body, <<"inputs">>))))
    ELSE r.body

(***************************************************************************)
(* The upstream response and its body                                      *)
(***************************************************************************)
\* one record the upstream service writes to the response body: a stream chunk
\* {"value":{"type":"chunk","value":s}}, a JSON value on one line, a JSON
\* value pretty-printed over several lines, or the text s as it is
Line(kind, str, v) == [kind |-> kind, s |-> str, v |-> v]

ChunkOf(str) ==
    Obj(<<<<"value">>>>, <<Obj(<<<<"type">>, <<"value">>>>, <<T("chunk"), Str(str)>>)>>)

RenderLine(l) ==
    CASE l.kind = "chunk" -> Stringify(ChunkOf(l.s))
      [] l.kind = "json" -> Stringify(l.v)
      [] l.kind = "pretty" -> StringifyPretty(l.v)
      [] OTHER -> l.s

\* the records joined by line feeds
RECURSIVE Render(_)
Render(sent) ==
    IF sent = <<>> THEN <<>>
    ELSE IF Len(sent) = 1 THEN RenderLine(sent[1])
    ELSE RenderLine(Head(sent)) \o <<"NL">> \o Render(Tail(sent))

\* the text of the response body
Body(up) == Render(up.sent)

\* r.ok
Ok(up) == up.status \in 200..299

Read(text) == [threw |-> FALSE, text |-> text, err |-> NoErr]

ReadThrows(err) == [threw |-> TRUE, text |-> <<>>, err |-> err]

\* await resp.text(): it rejects when the read fails, and with an AbortError
\* when the signal of the fetch is aborted
ReadText(up, ab) ==
    IF ab THEN ReadThrows(Err("AbortError", "This operation was aborted"))
    ELSE IF up.textFails THEN ReadThrows(Err("TypeError", "terminated"))
    ELSE Read(Body(up))

\* for await (const chunk of resp.body) out += decoder.decode(chunk)
ReadStream(up, ab) ==
    IF ab THEN ReadThrows(Err("AbortError", "This operation was aborted"))
    ELSE IF ~up.hasBody THEN ReadThrows(Err("TypeError", "r.body is not async iterable"))
    ELSE IF up.streamFails THEN ReadThrows(Err("TypeError", "Body is unusable"))
    ELSE Read(Body(up))

\* catch { if (!resp.body) return ''; ... manual read of the stream }
SafeCatch(up, ab, t) ==
    IF ~t.threw THEN t
    ELSE IF ~up.hasBody THEN Read(<<>>)
    ELSE ReadStream(up, ab)

safeReadText(up, ab) == SafeCatch(up, ab, ReadText(up, ab))

(***************************************************************************)
(* The marker-extracting revision after the fetch                          *)
(***************************************************************************)
NoLocals == [visible |-> Undefined, finalSlice |-> Undefined, fallback |-> FALSE,
             guessed |-> Undefined, cleaned |-> Undefined]

\* return 200 with the guessed JSON, or 422 when it does not parse
FallbackParsed(guessed, parsed) ==
    IF ~parsed.ok
    THEN Respond(422, ErrorPreview("Unable to parse final JSON (fallback)", parsed.error,
             SliceHead(guessed.s, PREVIEW_LEN)))
    ELSE Respond(200, Obj(<<<<"json">>, <<"text">>>>, <<parsed.value, guessed>>))

\* if (!guessed) return 422
FallbackGuessed(visible, guessed) ==
    IF ~Truthy(guessed)
    THEN Respond(422, ErrorPreview("FINAL markers not found",
             T("Expected __FINAL_JSON_START__ ... __FINAL_JSON_END__ in the final step output."),
             SliceTail(visible, PREVIEW_LEN)))
    ELSE FallbackParsed(guessed, tryParseJson(guessed.s))

\* the fallback branch: if (!finalSlice) { ... }
Fallback(visible) == FallbackGuessed(visible, findLastBalancedJson(visible))

\* return 200 with the marked JSON, or 422 when it does not parse
MarkedParsed(cleaned, parsed) ==
    IF ~parsed.ok
    THEN Respond(422, ErrorPreview("Unable to parse final JSON (marked)", parsed.error,
             SliceHead(cleaned, PREVIEW_LEN)))
    ELSE Respond(200, Obj(<<<<"json">>, <<"text">>>>, <<parsed.value, Str(cleaned)>>))

MarkedCleaned(cleaned) == MarkedParsed(cleaned, tryParseJson(cleaned))

\* the marked branch: clean and parse the marked JSON slice
Marked(finalSlice) == MarkedCleaned(cleanupJsonSlice(finalSlice.s))

\* whether the handler takes the fallback branch: if (!finalSlice)
TakesFallback(finalSlice) == ~Truthy(finalSlice)

ExtractSlice(visible, finalSlice) ==
    IF TakesFallback(finalSlice) THEN Fallback(visible) ELSE Marked(finalSlice)

\* from the visible text to the response
Extract(visible) ==
    ExtractSlice(visible, extractBetweenMarkers(visible, START_TAG, END_TAG))

LocalsSlice(visible, finalSlice) ==
    [visible |-> Str(visible), finalSlice |-> finalSlice,
     fallback |-> TakesFallback(finalSlice),
     guessed |-> IF TakesFallback(finalSlice) THEN findLastBalancedJson(visible)
                 ELSE Undefined,
     cleaned |-> IF TakesFallback(finalSlice) THEN Undefined
                 ELSE Str(cleanupJsonSlice(finalSlice.s))]

LocalsVisible(visible) ==
    LocalsSlice(visible, extractBetweenMarkers(visible, START_TAG, END_TAG))

\* the handler's local constants once the body raw is read
LocalsOf(raw) == LocalsVisible(VisibleOf(raw))

\* the try block after the body read rd
MarkerReadAs500(up, rd) ==
    IF rd.threw THEN Throw(rd.err)
    ELSE IF ~Ok(up)
    THEN Respond(500, ErrorDetail("Wordware API error", Str(rd.text)))
    ELSE Extract(VisibleOf(rd.text))

MarkerRead(up, rd) ==
    IF rd.threw THEN Throw(rd.err)
    ELSE IF ~Ok(up)
    THEN Respond(up.status, ErrorDetail("Wordware API error", Str(rd.text)))
    ELSE Extract(VisibleOf(rd.text))

\* the try block from the resolved fetch to the response
MarkerTail(up, ab) == MarkerRead(up, safeReadText(up, ab))

\* the locals after the body read rd
MarkerLocalsRead(up, rd, old) == IF Ok(up) /\ ~rd.threw THEN LocalsOf(rd.text) ELSE old

MarkerLocals(up, ab, old) == MarkerLocalsRead(up, safeReadText(up, ab), old)

(***************************************************************************)
(* The proxy revisions after the fetch                                     *)
(***************************************************************************)
\* contentType.includes('application/json')
IsJson(contentType) == contentType \in {"application/json", "application/json; charset=utf-8"}

\* detail = parsed.error || parsed.message || parsed || text (proxy), or
\* parsed.error || parsed.message || text (proxy2)
ProxyNamed(rv, text, parsed, named) ==
    IF rv = "proxy" THEN Or(Or(named, parsed), Str(text)) ELSE Or(named, Str(text))

\* try { const parsed = JSON.parse(text); detail = ... } catch { keep text }
ProxyDetailParsed(rv, text, p) ==
    IF ~p.ok \/ p.val.t = "null" THEN Str(text)
    ELSE ProxyNamed(rv, text, p.val, Or(Get(p.val, <<"error">>), Get(p.val, <<"message">>)))

\* the detail of the error response of the proxy revisions
ProxyDetail(rv, text) == ProxyDetailParsed(rv, text, JsonParse(text))

\* the payload of the success response of the proxy revisions
ProxyPayload(raw) ==
    IF Truthy(raw) /\ TypeOf(raw) = "object"
    THEN IF Truthy(Get(raw, <<"output">>)) /\ TypeOf(Get(raw, <<"output">>)) = "object"
         THEN Get(raw, <<"output">>)
         ELSE IF Truthy(Get(raw, <<"json">>)) /\ TypeOf(Get(raw, <<"json">>)) = "object"
         THEN Get(raw, <<"json">>)
         ELSE raw
    ELSE raw

\* { json, text, raw } of proxy, { json, text } of proxy2
ProxyResult(rv, json, text, raw) ==
    IF rv = "proxy"
    THEN Obj(<<<<"json">>, <<"text">>, <<"raw">>>>, <<json, text, raw>>)
    ELSE Obj(<<<<"json">>, <<"text">>>>, <<json, text>>)

ProxyPayloadResult(rv, raw, payload) ==
    Respond(200, ProxyResult(rv, payload, Str(StringifyPretty(payload)), raw))

\* try { raw = JSON.parse(text) } catch { return 200 with the text }
ProxyJson(rv, text, p) ==
    IF ~p.ok THEN Respond(200, ProxyResult(rv, Null, Str(text), Null))
    ELSE ProxyPayloadResult(rv, p.val, ProxyPayload(p.val))

\* the try block after the body text is read
ProxyText(rv, up, text) ==
    IF ~Ok(up) THEN Respond(up.status, ErrorDetail("Wordware API error", ProxyDetail(rv, text)))
    ELSE IF IsJson(up.contentType) THEN ProxyJson(rv, text, JsonParse(text))
    ELSE Respond(200, ProxyResult(rv, Null, Str(text), Null))

ProxyRead(rv, up, rd) == IF rd.threw THEN Throw(rd.err) ELSE ProxyText(rv, up, rd.text)

\* the try block from the resolved fetch to the response
ProxyTail(rv, up) == ProxyRead(rv, up, ReadText(up, FALSE))

(***************************************************************************)
(* The stream revision after the fetch                                     *)
(***************************************************************************)
\* s without its last element
Front(s) == SubSeq(s, 1, Len(s) - 1)

\* const errText = await r.text().catch(() => "")
StreamError(up, rd) ==
    Respond(up.status, ErrorDetail("Wordware API error",
                                   IF rd.threw THEN Str(<<>>) ELSE Str(rd.text)))

\* data.output || data.text || data.value || JSON.stringify(data, null, 2)
StreamData(data) ==
    IF data.t = "null"
    THEN Throw(Err("TypeError", "Cannot read properties of null (reading 'output')"))
    ELSE Respond(200, Obj(<<<<"text">>>>,
             <<Or(Or(Or(Get(data, <<"output">>), Get(data, <<"text">>)), Get(data, <<"value">>)),
                  Str(StringifyPretty(data)))>>))

StreamParsed(p) ==
    IF ~p.ok THEN Throw(Err("SyntaxError", "SyntaxError message")) ELSE StreamData(p.val)

\* Case A: const data = await r.json()
StreamJson(rd) == IF rd.threw THEN Throw(rd.err) ELSE StreamParsed(JsonParse(rd.text))

\* const finalText = output || buffer || "(no output)"
StreamFinal(output, buffer) ==
    Respond(200, Obj(<<<<"text">>>>, <<Str(FirstNonEmpty(output, buffer, <<"(no output)">>))>>))

\* Case B: the complete lines are parsed, the text after the last line feed
\* stays in the buffer
StreamLines(lines) == StreamFinal(AssembleLines(Front(lines)), lines[Len(lines)])

StreamBody(st) == IF st.threw THEN Throw(st.err) ELSE StreamLines(Split(st.text))

\* the try block from the resolved fetch to the response
StreamTail(up) ==
    IF ~Ok(up) THEN StreamError(up, ReadText(up, FALSE))
    ELSE IF IsJson(up.contentType) THEN StreamJson(ReadText(up, FALSE))
    ELSE StreamBody(ReadStream(up, FALSE))

\* the try block of a revision from the resolved fetch to the response
Tail0(rv, up, ab) ==
    CASE rv = "marker" -> MarkerTail(up, ab)
      [] rv = "stream" -> StreamTail(up)
      [] OTHER -> ProxyTail(rv, up)

(***************************************************************************)
(* The requests, environments and upstream responses of the model          *)
(***************************************************************************)
TIMEOUT_MS == 1000 * 300

\* the time one tick of the clock stands for
TickMs == 100000

Revisions == {"proxy", "marker", "stream", "proxy2"}

Envs ==
    [WORDWARE_API_KEY : {Undefined, T("sk-key")},
     NEXT_PUBLIC_WORDWARE_API_KEY : {Undefined, T("pk-key")},
     WORDWARE_PROMPT_ID : {T("prompt-id")},
     WORDWARE_APP_ID : {Undefined}]

WithInputs(inputs) == Obj(<<<<"inputs">>>>, <<inputs>>)

InputsValues ==
    {Null, Str(<<>>), T("Paris"), Obj(<<>>, <<>>),
     Obj(<<PERSONA>>, <<T("Asia")>>), Obj(<<PERSONA>>, <<Str(<<" ">>)>>),
     Obj(<<PERSONA>>, <<Num(1)>>)}

RequestBodies ==
    {Undefined, Obj(<<>>, <<>>), T("not json"),
     Str(Stringify(WithInputs(Obj(<<>>, <<>>)))), Str(Stringify(WithInputs(T("Paris"))))}
    \cup {WithInputs(i) : i \in InputsValues}

Requests == [method : {"OPTIONS", "GET", "POST"}, body : RequestBodies]

Raw(str) == Line("raw", str, Undefined)

Chunk(str) == Line("chunk", str, Undefined)

Json(v) == Line("json", <<>>, v)

Pretty(v) == Line("pretty", <<>>, v)

A1 == <<"{", "q", "a", "q", ":", "1", "}">>

UpstreamSents ==
    {<<>>,
     <<Raw(<<"boom">>)>>,
     <<Raw(<<"null">>)>>,
     <<Json(Obj(<<<<"error">>>>, <<T("bad")>>))>>,
     <<Json(Obj(<<<<"output">>>>, <<Obj(<<<<"a">>>>, <<Num(1)>>)>>))>>,
     <<Pretty(Obj(<<<<"text">>, <<"hero">>>>, <<Str(A1), Num(1)>>))>>,
     <<Chunk(<<START_TAG, " ">>), Chunk(A1), Chunk(<<" ", END_TAG>>), Raw(<<>>)>>,
     <<Chunk(<<"1">> \o A1), Raw(<<"data", ":">>), Chunk(<<"{", "1", "}">>)>>,
     <<Raw(<<START_TAG, "FENCE", "json">>), Raw(<<"{", "1">>), Raw(<<"FENCE", END_TAG>>)>>,
     <<Raw(<<START_TAG, END_TAG, "{", "}">>)>>,
     <<Raw(<<"no", " ", "json">>)>>}

ReadModes ==
    {[textFails |-> FALSE, hasBody |-> TRUE, streamFails |-> FALSE],
     [textFails |-> FALSE, hasBody |-> TRUE, streamFails |-> TRUE],
     [textFails |-> TRUE, hasBody |-> FALSE, streamFails |-> FALSE],
     [textFails |-> TRUE, hasBody |-> TRUE, streamFails |-> FALSE],
     [textFails |-> TRUE, hasBody |-> TRUE, streamFails |-> TRUE]}

Upstream(status, contentType, sent, mode) ==
    [status |-> status, contentType |-> contentType, sent |-> sent,
     textFails |-> mode.textFails, hasBody |-> mode.hasBody, streamFails |-> mode.streamFails]

Upstreams ==
    {Upstream(st, ct, sent, m) :
        st \in {200, 404, 500}, ct \in {"application/json", "text/event-stream", ""},
        sent \in UpstreamSents, m \in ReadModes}

NoUpstream == Upstream(0, "", <<>>, [textFails |-> FALSE, hasBody |-> FALSE, streamFails |-> FALSE])

(***************************************************************************)
(* The state machine: one request to one revision of the handler           *)
(***************************************************************************)
\* res.setHeader(...) at the top of the handler
CorsHeaders(rv) ==
    {<<"Access-Control-Allow-Origin", "*">>, <<"Access-Control-Allow-Headers", "Content-Type">>}
    \cup (IF rv = "stream" THEN {} ELSE {<<"Access-Control-Allow-Methods", "POST,OPTIONS">>})

Init ==
    /\ rev \in Revisions
    /\ env \in Envs
    /\ req \in Requests
    /\ pc = "start"
    /\ calls = <<>>
    /\ timer = "none"
    /\ clock = 0
    /\ aborted = FALSE
    /\ upstream = NoUpstream
    /\ locals = NoLocals
    /\ responses = <<>>
    /\ uncaught = FALSE

\* the handler returns: its response is sent, or its promise rejects
Return(out) ==
    /\ pc' = "done"
    /\ responses' = IF out.kind = "respond"
                    THEN Append(responses, [status |-> out.status, headers |-> CorsHeaders(rev),
                                            body |-> out.body])
                    ELSE responses
    /\ uncaught' = (uncaught \/ out.kind = "throw")

\* the handler runs from its first line to `await fetch` or to its response
Proceed(out) ==
    IF out.kind = "fetch"
    THEN /\ calls' = Append(calls, out.call)
         /\ timer' = IF out.call.signal THEN "armed" ELSE timer
         /\ pc' = "fetching"
         /\ UNCHANGED <<responses, uncaught>>
    ELSE /\ Return(out)
         /\ UNCHANGED <<calls, timer>>

Receive ==
    /\ pc = "start"
    /\ req' = [req EXCEPT !.body = BodyAfterStart(rev, req)]
    /\ Proceed(Start(rev, req, env))
    /\ UNCHANGED <<rev, env, clock, aborted, upstream, locals>>

Elapsed == clock * TickMs >= TIMEOUT_MS

\* time passes while the timer of setTimeout is pending
Tick ==
    /\ timer = "armed"
    /\ ~Elapsed
    /\ clock' = clock + 1
    /\ UNCHANGED <<rev, env, req, pc, calls, timer, aborted, upstream, locals, responses, uncaught>>

\* setTimeout(() => controller.abort(), 1000 * 300)
TimerFire ==
    /\ timer = "armed"
    /\ Elapsed
    /\ timer' = "fired"
    /\ aborted' = TRUE
    /\ UNCHANGED <<rev, env, req, pc, calls, clock, upstream, locals, responses, uncaught>>

\* .finally(() => clearTimeout(timeout))
\* a settled fetch that leaves the timer pending
KeepTimeout(t) == t

ClearTimeout(t) == IF t = "armed" THEN "cleared" ELSE t

\* the fetch resolves with the upstream response
FetchResolve ==
    /\ pc = "fetching"
    /\ ~aborted
    /\ timer = "armed" => ~Elapsed
    /\ \E up \in Upstreams : upstream' = up
    /\ timer' = ClearTimeout(timer)
    /\ pc' = "reading"
    /\ UNCHANGED <<rev, env, req, calls, clock, aborted, locals, responses, uncaught>>

\* the fetch rejects with a network error
FetchReject ==
    /\ pc = "fetching"
    /\ ~aborted
    /\ timer = "armed" => ~Elapsed
    /\ timer' = ClearTimeout(timer)
    /\ Return(TryCatch(rev, Throw(Err("TypeError", "fetch failed"))))
    /\ UNCHANGED <<rev, env, req, calls, clock, aborted, upstream, locals>>

\* the fetch rejects because its signal was aborted
FetchAbort ==
    /\ pc = "fetching"
    /\ aborted
    /\ timer' = ClearTimeout(timer)
    /\ Return(TryCatch(rev, Throw(Err("AbortError", "This operation was aborted"))))
    /\ UNCHANGED <<rev, env, req, calls, clock, aborted, upstream, locals>>

\* the handler runs from the resolved fetch to its response
ReadBody ==
    /\ pc = "reading"
    /\ locals' = IF rev = "marker" THEN MarkerLocals(upstream, aborted, locals) ELSE locals
    /\ Return(TryCatch(rev, Tail0(rev, upstream, aborted)))
    /\ UNCHANGED <<rev, env, req, calls, timer, clock, aborted, upstream>>

Next == Receive \/ Tick \/ TimerFire \/ FetchResolve \/ FetchReject \/ FetchAbort \/ ReadBody

Spec == Init /\ [][Next]_vars

(***************************************************************************)
(* The scheduling of the platform: time passes, a pending timer fires at   *)
(* its bound, and a fetch whose signal was aborted rejects.  The upstream  *)
(* service may never answer: FetchResolve and FetchReject are not fair.    *)
(***************************************************************************)
LiveSpec ==
    /\ Spec
    /\ WF_vars(Tick) /\ WF_vars(TimerFire) /\ WF_vars(FetchAbort)

(***************************************************************************)
(* The marker-extracting revision from the resolved fetch on, for the      *)
(* claims about its normalizer and its extractor: the request was          *)
(* received, the fetch has resolved with status 200, the body is read next *)
(***************************************************************************)
\* the longest body text of ExtractInit, in tokens
MaxVisibleLen == 5

\* the largest number of records in a body of NormalizeInit
MaxLines == 3

PipelineEnv ==
    [WORDWARE_API_KEY |-> T("sk-key"), NEXT_PUBLIC_WORDWARE_API_KEY |-> Undefined,
     WORDWARE_PROMPT_ID |-> T("prompt-id"), WORDWARE_APP_ID |-> Undefined]

PipelineRequest == [method |-> "POST", body |-> WithInputs(Obj(<<PERSONA>>, <<T("None")>>))]

Resolved(sent) ==
    /\ rev = "marker"
    /\ env = PipelineEnv
    /\ req = PipelineRequest
    /\ pc = "reading"
    /\ calls = <<Start("marker", PipelineRequest, PipelineEnv).call>>
    /\ timer = "cleared"
    /\ clock = 0
    /\ aborted = FALSE
    /\ upstream = Upstream(200, "text/event-stream", sent,
                           [textFails |-> FALSE, hasBody |-> TRUE, streamFails |-> FALSE])
    /\ locals = NoLocals
    /\ responses = <<>>
    /\ uncaught = FALSE

Texts(alphabet, n) == UNION {[1..k -> alphabet] : k \in 0..n}

\* bodies of plain text: every text of sentinels, braces, digits and spaces
ExtractInit ==
    \E v \in Texts({START_TAG, END_TAG, "{", "}", "1", " "}, MaxVisibleLen) :
        Resolved(<<Raw(v)>>)

ExtractSpec == ExtractInit /\ [][ReadBody]_vars

\* the records of a stream: chunks, lines that are not JSON, blank lines, and
\* a line with an output field
StreamRecords ==
    {Chunk(<<>>), Chunk(<<"a">>), Chunk(<<"b">>), Raw(<<"data", ":">>), Raw(<<>>),
     Json(Obj(<<<<"output">>>>, <<T("c")>>))}

\* the optional fields of a single JSON document
Fields(key, values) == {<<>>} \cup {<<<<key, v>>>> : v \in values}

Document(fs) == Obj([i \in 1..Len(fs) |-> <<fs[i][1]>>], [i \in 1..Len(fs) |-> fs[i][2]])

Documents ==
    {Document(o \o t \o v \o h) :
        o \in Fields("output", {Str(<<>>), T("o"), Num(1)}),
        t \in Fields("text", {Str(<<>>), T("t")}),
        v \in Fields("value", {Get(ChunkOf(<<"v">>), <<"value">>)}),
        h \in Fields("hero", {Num(1)})}

\* bodies of stream records, and bodies that are one JSON document
NormalizeInit ==
    \/ \E sent \in Texts(StreamRecords, MaxLines) : Resolved(sent)
    \/ \E d \in Documents : Resolved(<<Json(d)>>) \/ Resolved(<<Pretty(d)>>)

NormalizeSpec == NormalizeInit /\ [][ReadBody]_vars

(***************************************************************************)
(* The claims                                                              *)
(***************************************************************************)
\* the response of a finished request and its fields
Response == responses[1]

Error == Get(responses[1].body, <<"error">>)

Detail == Get(responses[1].body, <<"detail">>)

Answered == pc = "done" /\ Len(responses) = 1

\* the bearer credential as the revision in service reads it
CredentialFound ==
    IF rev \in {"proxy", "proxy2"}
    THEN Truthy(Or(env.WORDWARE_API_KEY, env.NEXT_PUBLIC_WORDWARE_API_KEY))
    ELSE Truthy(env.WORDWARE_API_KEY)

\* a POST request whose parsed body has inputs null, a string, or absent
InvalidInputs ==
    /\ req.method = "POST"
    /\ req.body.t \in {"object", "undefined"}
    /\ Get(req.body, <<"inputs">>).t \in {"null", "string", "undefined"}

\* a POST request whose parsed body has an object as inputs
ValidInputs ==
    /\ req.method = "POST"
    /\ req.body.t = "object"
    /\ Get(req.body, <<"inputs">>).t = "object"

\* the fetch has resolved with a non-success status
UpstreamFailed == upstream # NoUpstream /\ ~Ok(upstream)

\* C1: every POST request whose inputs is null, a string or absent is
\* answered with status 400 and no outbound call is made (stated for a
\* configured credential, which the claim takes for granted)
C1_InvalidInputs400 ==
    (pc = "done" /\ CredentialFound /\ InvalidInputs)
        => (calls = <<>> /\ Len(responses) = 1 /\ Response.status = 400)

\* C9: when the bearer credential is absent, a POST request (here: one with
\* valid inputs) makes no outbound call and is answered with status 500
C9_NoCallWithoutCredential ==
    (~CredentialFound /\ ValidInputs)
        => (calls = <<>> /\ (pc = "done" => Len(responses) = 1 /\ Response.status = 500))

\* C4: whatever each stage does, the handler sends exactly one response and
\* never a second one, no exception leaves it, every response other than a
\* 200 is a JSON object with an error string and a status of 400 or more, and
\* the marker-extracting revision answers a POST with 200 only with the JSON
\* it extracted and parsed
C4_ExactlyOneStructuredResponse ==
    /\ Len(responses) <= 1
    /\ ~uncaught
    /\ pc = "done" => Len(responses) = 1
    /\ pc # "done" => responses = <<>>
    /\ \A i \in 1..Len(responses) :
          /\ responses[i].status # 200 =>
                /\ responses[i].status \in 400..599
                /\ responses[i].body.t = "object"
                /\ Get(responses[i].body, <<"error">>).t = "string"
          /\ (responses[i].status = 200 /\ rev = "marker" /\ req.method = "POST") =>
                /\ upstream # NoUpstream /\ Ok(upstream)
                /\ locals.visible.t = "string"
                /\ Get(responses[i].body, <<"json">>).t \in {"object", "number", "string", "null"}
                /\ Get(responses[i].body, <<"error">>).t = "undefined"

\* C4 witness: the body read of the marker-extracting revision failed twice
\* (text() and the manual stream read) and the catch block answered 500
C4_Witness ==
    /\ Answered /\ rev = "marker" /\ upstream.textFails /\ upstream.hasBody
    /\ upstream.streamFails /\ Response.status = 500 /\ Error = T("Server error")

\* C10: the timer is pending only while the fetch is pending; the abort fires
\* only on a fetch that has not settled, never during the body read or the
\* extraction; and 'Upstream timeout' is the single response of a request
\* whose fetch had not settled when the bound elapsed
C10_TimerOnlyWhileFetchPending ==
    /\ timer = "armed" => (pc = "fetching" /\ rev = "marker")
    /\ pc \in {"reading", "done"} => timer # "armed"
    /\ aborted => /\ timer = "fired" /\ Elapsed /\ upstream = NoUpstream
                  /\ pc \in {"fetching", "done"} /\ locals = NoLocals
    /\ \A i \in 1..Len(responses) :
          Get(responses[i].body, <<"detail">>) = T("Upstream timeout")
              => /\ aborted /\ Elapsed /\ upstream = NoUpstream /\ rev = "marker"
                 /\ Len(responses) = 1 /\ responses[i].status = 500

\* C10 witness: the fetch resolved after some time and the timer was cancelled
\* before the body read
C10_Witness == pc = "reading" /\ timer = "cleared" /\ clock > 0 /\ ~aborted

\* how the body read of a failed upstream response ends: with its text, with
\* the empty text, or with an exception
C2BodyRead(rv, up) ==
    IF ~up.textFails THEN "text"
    ELSE CASE rv = "marker" -> IF ~up.hasBody THEN "empty"
                               ELSE IF up.streamFails THEN "threw" ELSE "text"
           [] rv = "stream" -> "empty"
           [] OTHER -> "threw"

\* the detail the proxy revisions take from a body text and its parse p
C2ProxyDetail(rv, text, p) ==
    IF ~p.ok \/ p.val.t = "null" THEN Str(text)
    ELSE IF Truthy(Get(p.val, <<"error">>)) THEN Get(p.val, <<"error">>)
    ELSE IF Truthy(Get(p.val, <<"message">>)) THEN Get(p.val, <<"message">>)
    ELSE IF rv = "proxy" /\ Truthy(p.val) THEN p.val
    ELSE Str(text)

C2Detail(rv, text) ==
    IF rv \in {"marker", "stream"} THEN Str(text) ELSE C2ProxyDetail(rv, text, JsonParse(text))

C2Answer(rv, up, read) ==
    CASE read = "text" -> Response.status = up.status /\ Detail = C2Detail(rv, Body(up))
      [] read = "empty" -> Response.status = up.status /\ Detail = Str(<<>>)
      [] OTHER -> Response.status = 500 /\ Error = T("Server error")

\* C2 as stated: after a non-success upstream status (whose body can be
\* read) there is one outbound call, the response carries exactly the
\* upstream status and the upstream body as its detail, and no normalization
\* or extraction ran
C2_UpstreamBodyIsDetail ==
    (pc = "done" /\ UpstreamFailed /\ ~upstream.textFails)
        => /\ Len(calls) = 1 /\ Len(responses) = 1 /\ locals = NoLocals
           /\ Response.status = upstream.status
           /\ Detail = Str(Body(upstream))

\* C2 amended: after a non-success upstream status there is one outbound
\* call and no normalization or extraction; when the body is read the
\* response carries the upstream status, and its detail is the body text in
\* the marker and stream revisions, while the proxy revisions replace a body
\* that parses as non-null JSON by its error field, else its message field,
\* else (first proxy revision) the parsed value; when the body read fails
\* the detail is empty or the response is a 500 'Server error'
C2_PassThrough ==
    (pc = "done" /\ UpstreamFailed)
        => /\ Len(calls) = 1 /\ Len(responses) = 1 /\ locals = NoLocals
           /\ C2Answer(rev, upstream, C2BodyRead(rev, upstream))

\* C2 witness: the first proxy revision passed an upstream 404 through with
\* the error field of the JSON body as its detail
C2_Witness ==
    /\ Answered /\ UpstreamFailed /\ rev = "proxy" /\ upstream.status = 404
    /\ Response.status = 404 /\ Detail = T("bad") /\ Body(upstream) # <<"bad">>

TimedOut ==
    /\ Answered /\ aborted /\ Response.status = 500
    /\ Error = T("Server error") /\ Detail = T("Upstream timeout")

\* the outbound call of the marker-extracting revision is pending
Pending == rev = "marker" /\ pc = "fetching"

\* it is still pending when the 300 s bound has elapsed
PendingAtBound == Pending /\ Elapsed

Settled == pc \in {"reading", "done"}

\* C3: in the marker-extracting revision the outbound call of a valid POST
\* never stays pending forever, and once the 300 s bound has elapsed with
\* the call still pending the call is aborted and the request ends with a
\* single 500 response whose detail is 'Upstream timeout'
C3_TimeoutEnds == (Pending ~> Settled) /\ (PendingAtBound ~> TimedOut)

\* C3 witness: a valid POST ended in the timeout response after the call was
\* aborted at the bound
C3_Witness == TimedOut /\ ValidInputs /\ clock * TickMs >= TIMEOUT_MS /\ Len(calls) = 1

\* the extraction ran on a visible text
Extracted == pc = "done" /\ locals.visible.t = "string"

\* v holds a start sentinel followed later by an end sentinel
HasMarkers(v) ==
    \E a \in 1..Len(v) : \E b \in (a + 1)..Len(v) : v[a] = START_TAG /\ v[b] = END_TAG

FirstStart(v) == CHOOSE a \in 1..Len(v) : v[a] = START_TAG /\ \A c \in 1..(a - 1) : v[c] # START_TAG

FirstEndAfter(v, a) ==
    CHOOSE b \in (a + 1)..Len(v) : v[b] = END_TAG /\ \A c \in (a + 1)..(b - 1) : v[c] # END_TAG

\* the text strictly between the first start sentinel and the first end
\* sentinel after it, trimmed
Marked0(v, a) == Trim(SubSeq(v, a + 1, FirstEndAfter(v, a) - 1))

\* C5: whenever the visible text holds the start sentinel followed later by
\* the end sentinel, the balanced-brace fallback is not consulted and the
\* response is the parse of the text between the sentinels or the 'marked'
\* parse failure; the fallback is consulted only when a sentinel is absent
C5_MarkersTakePriority ==
    Extracted =>
        /\ locals.fallback => ~HasMarkers(locals.visible.s)
        /\ HasMarkers(locals.visible.s) =>
              /\ locals.finalSlice = Str(Marked0(locals.visible.s, FirstStart(locals.visible.s)))
              /\ locals.guessed = Undefined
              /\ Len(responses) = 1
              /\ \/ Response.status = 200
                 \/ Response.status = 422 /\ Error = T("Unable to parse final JSON (marked)")

\* opening minus closing braces of v[i..j]
Bal(v, i, j) ==
    Cardinality({k \in i..j : v[k] = "{"}) - Cardinality({k \in i..j : v[k] = "}"})

\* v[a..b] is a balanced brace segment: it opens at a and closes at b
Closed(v, a, b) ==
    /\ v[a] = "{" /\ v[b] = "}" /\ Bal(v, a, b) = 0
    /\ \A k \in a..(b - 1) : Bal(v, a, k) > 0

\* no brace opened before a is still open at a
TopLevel(v, a) ==
    ~ \E c \in 1..(a - 1) : v[c] = "{" /\ \A k \in c..(a - 1) : Bal(v, c, k) > 0

\* the top-level spans of v
Spans(v) ==
    {ab \in (1..Len(v)) \X (1..Len(v)) :
        ab[1] < ab[2] /\ Closed(v, ab[1], ab[2]) /\ TopLevel(v, ab[1])}

Segments(v) == {ab \in (1..Len(v)) \X (1..Len(v)) : ab[1] < ab[2] /\ Closed(v, ab[1], ab[2])}

LastOf(v, spans) == CHOOSE ab \in spans : \A cd \in spans : cd[1] <= ab[1]

NotFound == Len(responses) = 1 /\ Response.status = 422 /\ Error = T("FINAL markers not found")

\* what the fallback branch does with the spans of the visible text v
C6Guess(v, spans, none) ==
    /\ (locals.guessed = Null) <=> none
    /\ none => NotFound
    /\ spans # {} => locals.guessed = Str(SubSeq(v, LastOf(v, spans)[1], LastOf(v, spans)[2]))
    /\ locals.guessed # Null => ~NotFound

ChunkStream(sent) ==
    /\ \A i \in 1..Len(sent) : sent[i].kind \in {"chunk", "raw"}
    /\ \A i \in 1..Len(sent) : sent[i].kind = "raw" => ~JsonParse(sent[i].s).ok
    /\ \E i \in 1..Len(sent) : sent[i].kind = "chunk"

\* the payloads of the chunk records, concatenated in line order
RECURSIVE ChunkText(_)
ChunkText(sent) ==
    IF sent = <<>> THEN <<>>
    ELSE (IF Head(sent).kind = "chunk" THEN Head(sent).s ELSE <<>>) \o ChunkText(Tail(sent))

\* C7 as stated: for a body of chunk lines and lines that are not JSON the
\* visible text is the concatenation of the chunk payloads in line order
C7_ChunksConcatenated ==
    (Extracted /\ ChunkStream(upstream.sent))
        => locals.visible = Str(ChunkText(upstream.sent))

C7Visible(up, text) == IF text # <<>> THEN Str(text) ELSE Str(Body(up))

\* C7 amended: for a body of chunk lines and lines that are not JSON the
\* visible text is the concatenation of the chunk payloads in line order
\* when that concatenation is not empty, and the whole body otherwise
C7_ChunksConcatenatedOrBody ==
    (Extracted /\ ChunkStream(upstream.sent))
        => locals.visible = C7Visible(upstream, ChunkText(upstream.sent))

\* C7 witness: two chunks around a line that is not JSON
C7_Witness ==
    /\ Extracted
    /\ upstream.sent = <<Chunk(<<"a">>), Raw(<<"data", ":">>), Chunk(<<"b">>)>>
    /\ locals.visible = Str(<<"a", "b">>)

IsString(v) == v.t = "string"

\* the body is one JSON document with a top-level output or text string
SingleDocument(sent) ==
    /\ Len(sent) = 1 /\ sent[1].kind \in {"json", "pretty"} /\ sent[1].v.t = "object"
    /\ IsString(Get(sent[1].v, <<"output">>)) \/ IsString(Get(sent[1].v, <<"text">>))

\* the values of the top-level output and text string fields of d
TextFields(d) ==
    {Get(d, k) : k \in {k \in {<<"output">>, <<"text">>} : IsString(Get(d, k))}}

\* C8 as stated: for a body that is one JSON document with a top-level output
\* or text string the visible text is the value of that field
C8_FieldIsVisible ==
    (Extracted /\ SingleDocument(upstream.sent))
        => locals.visible \in TextFields(upstream.sent[1].v)

\* what the line-by-line aggregation takes from a document on one line
C8Line(d, value) ==
    IF Get(value, <<"type">>) = T("chunk") /\ IsString(Get(value, <<"value">>))
    THEN Get(value, <<"value">>).s
    ELSE IF IsString(Get(d, <<"output">>)) THEN Get(d, <<"output">>).s
    ELSE Get(d, <<"text">>).s

\* what the single-JSON rule takes from a document
C8Blob(d) ==
    IF IsString(Get(d, <<"text">>)) THEN Get(d, <<"text">>).s ELSE Get(d, <<"output">>).s

C8Visible(up, line, blob) ==
    IF line # <<>> THEN Str(line) ELSE IF blob # <<>> THEN Str(blob) ELSE Str(Body(up))

C8Expected(up, rec) ==
    C8Visible(up, IF rec.kind = "json" THEN C8Line(rec.v, Get(rec.v, <<"value">>)) ELSE <<>>,
              C8Blob(rec.v))

\* C8 amended: the line-by-line aggregation is applied first, so a document
\* on one line yields its chunk-shaped value, else its output, else its
\* text; when that is empty or the document spans several lines the
\* single-JSON rule yields text, else output; when that is empty too the
\* visible text is the whole body
C8_AggregationFirst ==
    (Extracted /\ SingleDocument(upstream.sent))
        => locals.visible = C8Expected(upstream, upstream.sent[1])

\* C8 witness: a document on one line with both fields yields its output
C8_Witness ==
    /\ Extracted
    /\ upstream.sent = <<Json(Obj(<<<<"output">>, <<"text">>>>, <<T("o"), T("t")>>))>>
    /\ locals.visible = T("o")

====
